---- MODULE Spec2Model ----
(***************************************************************************)
(* Model of the stock-agent scanner: src/agent.py (the current scanner)    *)
(* and src/backup.py (the earlier scanner kept beside it).                 *)
(*                                                                         *)
(* Prices and moving averages are integers (currency units).  A float that *)
(* may be NaN is a record [nan, v].  Fractions are compared by cross       *)
(* multiplication; the proximity thresholds are kept in thousandths.       *)
(***************************************************************************)
EXTENDS Integers, Sequences, FiniteSets, TLC

(* ---------------- bounds of the model ---------------- *)
NumTickers == 2
MaxBars == 11
MaxExp == 3

(* ---------------- program constants ---------------- *)
TARGET_MA == 60
TREND_MA == 200
THRESHOLD == 25
BACKUP_THRESHOLD == 20
RSI_PERIOD == 14
HV_WINDOW == 252
MIN_HISTORY == 200
HOLDING_PERIOD == 10
MIN_DAYS == 30
MAX_DAYS == 60

TICKERS ==
  <<"AAPL", "MSFT", "NVDA", "AMZN", "INTC", "AMD", "GOOGL", "META", "NFLX",
    "VOO", "VTI", "QQQ", "QQQM", "GLD", "GLDM", "BTC-USD">>

BACKUP_TICKERS ==
  <<"AAPL", "MSFT", "NVDA", "AMZN", "GOOGL", "META", "NFLX", "VOO", "QQQ",
    "GLD", "BTC-USD">>

(* the first NumTickers entries of the scanner's watchlist *)
Watchlist(p) ==
  SubSeq(IF p = "agent" THEN TICKERS ELSE BACKUP_TICKERS, 1, NumTickers)

(* ---------------- floats that may be NaN ---------------- *)
NaN == [nan |-> TRUE, v |-> 0]

Num(x) == [nan |-> FALSE, v |-> x]

(* IEEE comparison: any comparison with NaN is false *)
Gt(a, b) == ~a.nan /\ ~b.nan /\ a.v > b.v

Abs(x) == IF x < 0 THEN 0 - x ELSE x

(* (num / den) <= t/1000 as numpy evaluates it: x/0 is +inf (or NaN for *)
(* 0/0), both of which fail the comparison                               *)
RatioLeq(num, den, t) ==
  IF den > 0 THEN num * 1000 <= t * den
  ELSE IF den = 0 THEN FALSE
  ELSE num * 1000 >= t * den

(* ---------------- indicator library ---------------- *)
(* Series.rolling(window).mean().iloc[-1] over n valid observations whose *)
(* trailing mean is m: NaN until the window is full                       *)
rolling_mean_last(n, window, m) ==
  IF n >= window THEN Num(m) ELSE NaN

(* calculate_rsi at the last bar: gain and loss are the trailing means of *)
(* the positive and negative deltas (the first delta, NaN, is replaced by *)
(* 0 by where(), so the window is full from n = window on)                *)
calculate_rsi(n, gain, loss) ==
  IF n < RSI_PERIOD THEN NaN
  ELSE IF loss = 0 THEN (IF gain = 0 THEN NaN ELSE Num(100))
  ELSE Num(100 - (100 * loss) \div (gain + loss))

(* calculate_historical_volatility: the log-return series has n-1 valid *)
(* entries (shift(1)), and rolling(window).std() needs window of them   *)
calculate_historical_volatility(n, vol) ==
  IF n - 1 >= HV_WINDOW THEN Num(vol) ELSE NaN

(* ---------------- macro context ---------------- *)
ErrorMacro == [vix |-> 0, tnx |-> 0, status |-> "Error Fetching Macro"]

(* variant: each fetch guarded on its own, so a failed yield fetch keeps *)
(* the volatility level and its label                                  *)
check_macro_environment_partial(vixFetch, tnxFetch) ==
  IF ~vixFetch.ok THEN [vix |-> 0, tnx |-> 0, status |-> "Error Fetching Macro"]
  ELSE [vix |-> vixFetch.v, tnx |-> IF tnxFetch.ok THEN tnxFetch.v ELSE 0,
        status |-> IF vixFetch.v > 30 THEN "EXTREME FEAR (High Risk)"
                   ELSE IF vixFetch.v > 20 THEN "FEAR (Caution)"
                   ELSE IF vixFetch.v < 15 THEN "GREED (Bullish)"
                   ELSE "NEUTRAL"]

(* check_macro_environment: vixFetch / tnxFetch are "fail" records or the *)
(* latest close                                                           *)
check_macro_environment(vixFetch, tnxFetch) ==
  IF ~vixFetch.ok \/ ~tnxFetch.ok THEN ErrorMacro
  ELSE [vix |-> vixFetch.v, tnx |-> tnxFetch.v,
        status |-> IF vixFetch.v > 30 THEN "EXTREME FEAR (High Risk)"
                   ELSE IF vixFetch.v > 20 THEN "FEAR (Caution)"
                   ELSE IF vixFetch.v < 15 THEN "GREED (Bullish)"
                   ELSE "NEUTRAL"]

(* ---------------- None ---------------- *)
None == [none |-> TRUE]

IsNone(x) == x.none

(* ---------------- backtest engine ---------------- *)
(* a bar of the annotated history: Low, Close (integers), MA60, MA200 *)
(* (floats, NaN while the rolling window is not full)                 *)
Bar(low, close, ma60, ma200) ==
  [Low |-> low, Close |-> close, MA60 |-> ma60, MA200 |-> ma200]

(* variant: the touch test without the (1 + THRESHOLD) buffer *)
Signal_unbuffered(b) ==
  /\ ~b.MA60.nan /\ b.Low <= b.MA60.v
  /\ Gt(Num(b.Close), b.MA200)
  /\ Gt(Num(b.Close), b.MA60)

(* df['Signal'] of run_backtest, one bar *)
Signal(b) ==
  /\ ~b.MA60.nan /\ b.Low * 1000 <= b.MA60.v * (1000 + THRESHOLD)
  /\ Gt(Num(b.Close), b.MA200)
  /\ Gt(Num(b.Close), b.MA60)

(* df[df['Signal']].index as positions 1..Len(data), ascending *)
signals(data) == {k \in 1..Len(data) : Signal(data[k])}

(* the guard of the trade loop: python idx + 10 < len(df), idx = k - 1 *)
HasExit(data, k) == (k - 1) + HOLDING_PERIOD < Len(data)

(* one recorded trade: entry/exit positions and the two closes *)
Trade(data, k) ==
  [entry |-> k, exit |-> k + HOLDING_PERIOD,
   buy |-> data[k].Close, sell |-> data[k + HOLDING_PERIOD].Close]

(* variant: a trigger bar without a bar 10 sessions later is traded *)
(* against the last bar of the series                              *)
RECURSIVE tradesFrom_truncated(_, _)
tradesFrom_truncated(data, k) ==
  IF k > Len(data) THEN <<>>
  ELSE IF Signal(data[k])
       THEN LET x == IF HasExit(data, k) THEN k + HOLDING_PERIOD ELSE Len(data) IN
            <<[entry |-> k, exit |-> x,
               buy |-> data[k].Close, sell |-> data[x].Close]>>
            \o tradesFrom_truncated(data, k + 1)
       ELSE tradesFrom_truncated(data, k + 1)

RECURSIVE tradesFrom(_, _)
tradesFrom(data, k) ==
  IF k > Len(data) THEN <<>>
  ELSE IF Signal(data[k]) /\ HasExit(data, k)
       THEN <<Trade(data, k)>> \o tradesFrom(data, k + 1)
       ELSE tradesFrom(data, k + 1)

(* the trades list built by the loop over signals *)
trades(data) == tradesFrom(data, 1)

(* t > 0 for t = (sell - buy) / buy *)
IsWin(t) == (t.sell - t.buy) * t.buy > 0

RECURSIVE CountWins(_)
CountWins(ts) ==
  IF ts = <<>> THEN 0
  ELSE (IF IsWin(Head(ts)) THEN 1 ELSE 0) + CountWins(Tail(ts))

(* sum(trades) as an exact fraction [num, den], den > 0 *)
RECURSIVE SumReturns(_)
SumReturns(ts) ==
  IF ts = <<>> THEN [num |-> 0, den |-> 1]
  ELSE LET r == SumReturns(Tail(ts))
           t == Head(ts)
       IN [num |-> (t.sell - t.buy) * r.den + r.num * t.buy,
           den |-> t.buy * r.den]

(* a / b rounded to the nearest integer (b > 0): the :.1f rendering of a *)
(* percentage, kept in tenths of a percent                               *)
RoundDiv(a, b) == (2 * a + b) \div (2 * b)

(* variant: without the two early returns, an empty trade list is *)
(* reported as a 0% win rate over 0 trades                       *)
run_backtest_zero(data) ==
  LET ts == trades(data) IN
  IF ts = <<>>
  THEN [text |-> "Win Rate", win_rate |-> 0, avg_return |-> 0, trades |-> 0]
  ELSE LET s == SumReturns(ts) IN
    [text |-> "Win Rate",
     win_rate |-> RoundDiv(CountWins(ts) * 1000, Len(ts)),
     avg_return |-> RoundDiv(s.num * 1000, s.den * Len(ts)),
     trades |-> Len(ts)]

run_backtest(data) ==
  IF Cardinality(signals(data)) < 1 THEN [text |-> "No similar setups."]
  ELSE LET ts == trades(data) IN
    IF ts = <<>> THEN [text |-> "Insufficient data."]
    ELSE LET s == SumReturns(ts) IN
      [text |-> "Win Rate",
       win_rate |-> RoundDiv(CountWins(ts) * 1000, Len(ts)),
       avg_return |-> RoundDiv(s.num * 1000, s.den * Len(ts)),
       trades |-> Len(ts)]

(* ---------------- option candidate selector ---------------- *)
(* (exp_date - today).days: d is the expiration's calendar distance from *)
(* today's date, late says datetime.now() is past midnight               *)
days_out(d, late) == IF late THEN d - 1 ELSE d

(* the for loop with break: first expiration, in list order, in window *)
RECURSIVE first_in_window(_, _)
first_in_window(expirations, late) ==
  IF expirations = <<>> THEN None
  ELSE IF MIN_DAYS <= days_out(Head(expirations), late)
          /\ days_out(Head(expirations), late) <= MAX_DAYS
       THEN [none |-> FALSE, date |-> Head(expirations)]
       ELSE first_in_window(Tail(expirations), late)

(* target_date after the fallback; expirations is not empty *)
target_date(expirations, late) ==
  LET t == first_in_window(expirations, late) IN
  IF IsNone(t) THEN expirations[1] ELSE t.date

(* |strike - price * 1.02| in hundredths *)
abs_diff(strike, price) == Abs(strike * 100 - price * 102)

(* calls['abs_diff'].idxmin(): the first row with the least abs_diff *)
idxmin(calls, price) ==
  CHOOSE k \in 1..Len(calls) :
    /\ \A j \in 1..Len(calls) :
         abs_diff(calls[k].strike, price) <= abs_diff(calls[j].strike, price)
    /\ \A j \in 1..(k - 1) :
         abs_diff(calls[j].strike, price) > abs_diff(calls[k].strike, price)

(* get_option_idea: stock is [optionsOk, expirations, chainOk, calls] *)
get_option_idea(stock, current_price, late) ==
  IF ~stock.optionsOk THEN None
  ELSE IF stock.expirations = <<>> THEN None
  ELSE IF ~stock.chainOk THEN None
  ELSE IF stock.calls = <<>> THEN None
  ELSE LET best_call == stock.calls[idxmin(stock.calls, current_price)] IN
    [none |-> FALSE,
     expiration |-> target_date(stock.expirations, late),
     strike |-> best_call.strike,
     lastPrice |-> best_call.lastPrice,
     impliedVolatility |-> best_call.impliedVolatility,
     volume |-> best_call.volume]

(* ---------------- news ---------------- *)
RECURSIVE CountHeadlines(_)
CountHeadlines(items) ==
  IF items = <<>> THEN 0
  ELSE (IF Head(items).title /\ Head(items).link THEN 1 ELSE 0)
       + CountHeadlines(Tail(items))

(* get_stock_news (identical in both files): the number of <li> entries, *)
(* 0 standing for "<p>No recent news found.</p>"                         *)
get_stock_news(news) ==
  IF ~news.ok THEN 0
  ELSE CountHeadlines(SubSeq(news.items, 1,
                             IF Len(news.items) < 3 THEN Len(news.items) ELSE 3))

(* ======================= the scan orchestrator ======================= *)
VARIABLES
  prog,        \* which scanner runs: "agent" (agent.py) or "backup" (backup.py)
  pc,          \* position inside analyze_market
  idx,         \* position of the for loop in the watchlist, 1-based
  macro,       \* the MacroContext of this run
  macroCalls,  \* number of calls of check_macro_environment
  hist,        \* this asset's history summary and latest indicator values
  extras,      \* this asset's backtest, news and option evidence
  mail,        \* the message being handed to send_email
  log,         \* what the run has done so far, in order
  data,        \* backtest engine: the annotated series given to run_backtest
  result,      \* backtest engine: what run_backtest returned
  option_call, \* option selector: the arguments of get_option_idea
  option_data  \* option selector: what get_option_idea returned

vars == <<prog, pc, idx, macro, macroCalls, hist, extras, mail, log,
          data, result, option_call, option_data>>

scanVars == <<prog, pc, idx, macro, macroCalls, hist, extras, mail, log>>

backtestVars == <<data, result>>

optionVars == <<option_call, option_data>>

NoMacro == [vix |-> 0, tnx |-> 0, status |-> "unset"]

NoHist == [n |-> 0]

NoExtras == [set |-> FALSE]

NoMail == [set |-> FALSE]

NoResult == [text |-> "not run"]

NoCall == [set |-> FALSE]

(* ---- the inputs the collaborators can supply ---- *)
Failed == [ok |-> FALSE, v |-> 0]

VixFetches == {Failed} \cup {[ok |-> TRUE, v |-> x] : x \in {18, 35}}

TnxFetches == {Failed, [ok |-> TRUE, v |-> 4]}

(* number of bars returned by stock.history(period="2y") *)
HistLens == {199, 200, 253}

(* latest close and trailing means of the last 60 / 200 closes *)
Snapshots ==
  { [price |-> 100, m60 |-> 98,  m200 |-> 90],
    [price |-> 100, m60 |-> 98,  m200 |-> 110],
    [price |-> 41,  m60 |-> 40,  m200 |-> 30],
    [price |-> 51,  m60 |-> 50,  m200 |-> 40],
    [price |-> 100, m60 |-> 100, m200 |-> 100],
    [price |-> 103, m60 |-> 100, m200 |-> 90],
    [price |-> 99,  m60 |-> 100, m200 |-> 90] }

(* trailing 14-bar mean gain and mean loss *)
RsiInputs == { [gain |-> 1, loss |-> 1], [gain |-> 0, loss |-> 0] }

(* annualised volatility in percent, when defined *)
VolInputs == {25}

(* the advisory collaborator: generate_content raises, or returns text *)
(* that is or is not JSON, with or without the two keys                 *)
Responses ==
  { [ok |-> FALSE, json |-> FALSE, subject |-> FALSE, body |-> FALSE],
    [ok |-> TRUE,  json |-> FALSE, subject |-> FALSE, body |-> FALSE],
    [ok |-> TRUE,  json |-> TRUE,  subject |-> FALSE, body |-> TRUE],
    [ok |-> TRUE,  json |-> TRUE,  subject |-> TRUE,  body |-> FALSE],
    [ok |-> TRUE,  json |-> TRUE,  subject |-> TRUE,  body |-> TRUE] }

RespKind(r) ==
  IF ~r.ok THEN "raises"
  ELSE IF ~r.json THEN "not json"
  ELSE IF ~r.subject THEN "no subject"
  ELSE IF ~r.body THEN "no body"
  ELSE "parsed"

NewsInputs ==
  { [ok |-> FALSE, items |-> <<>>],
    [ok |-> TRUE, items |-> <<>>],
    [ok |-> TRUE, items |-> <<[title |-> TRUE, link |-> TRUE],
                              [title |-> TRUE, link |-> FALSE]>>] }

Row(k) == [strike |-> k, lastPrice |-> 3, impliedVolatility |-> 30, volume |-> 10]

(* the chain sources met by the scan *)
ScanStocks ==
  { [optionsOk |-> FALSE, expirations |-> <<>>, chainOk |-> FALSE, calls |-> <<>>],
    [optionsOk |-> TRUE, expirations |-> <<>>, chainOk |-> TRUE, calls |-> <<>>],
    [optionsOk |-> TRUE, expirations |-> <<7, 45>>, chainOk |-> TRUE, calls |-> <<>>],
    [optionsOk |-> TRUE, expirations |-> <<7, 45>>, chainOk |-> TRUE,
     calls |-> <<Row(98), Row(101), Row(103), Row(110)>>] }

UpBar == Bar(99, 100, Num(98), Num(90))

HighBar == Bar(100, 110, Num(98), Num(90))

FlatBar == Bar(96, 97, Num(98), Num(90))

BarKinds == {UpBar, HighBar, FlatBar}

(* annotated histories met by the scan, by their backtest-relevant bars *)
ScanSeries ==
  { [k \in 1..11 |-> FlatBar],
    [k \in 1..11 |-> IF k = 11 THEN UpBar ELSE FlatBar],
    [k \in 1..11 |-> IF k = 1 THEN UpBar ELSE IF k = 11 THEN HighBar ELSE FlatBar] }

Event(e, t, d) == [e |-> e, t |-> t, d |-> d]

Ticker == Watchlist(prog)[idx]

(* variant: the loop has no handler, an exception ends the scan *)
Advance_abort ==
  /\ idx' = idx + 1
  /\ pc' = IF idx + 1 > NumTickers \/ log'[Len(log')].e = "error"
           THEN "done" ELSE "fetch"
  /\ hist' = NoHist
  /\ extras' = NoExtras
  /\ mail' = NoMail

(* end of one iteration of the for loop *)
Advance ==
  /\ idx' = idx + 1
  /\ pc' = IF idx + 1 > NumTickers THEN "done" ELSE "fetch"
  /\ hist' = NoHist
  /\ extras' = NoExtras
  /\ mail' = NoMail

ScanInit ==
  /\ prog \in {"agent", "backup"}
  /\ pc = IF prog = "agent" THEN "macro" ELSE "fetch"
  /\ idx = 1
  /\ macro = NoMacro
  /\ macroCalls = 0
  /\ hist = NoHist
  /\ extras = NoExtras
  /\ mail = NoMail
  /\ log = <<>>

(* ---------------- signal detector ---------------- *)
(* is_uptrend = price > ma200 *)
is_uptrend(price, ma200) == Gt(Num(price), ma200)

(* variant: the proximity test excludes the threshold itself *)
is_near_ma60_strict(price, ma60, threshold) ==
  ~ma60.nan /\ RatioLeq(Abs(price - ma60.v), ma60.v, threshold)
            /\ Abs(price - ma60.v) * 1000 # threshold * ma60.v

(* diff = abs(price - ma60); is_near_ma60 = (diff / ma60) <= threshold *)
is_near_ma60(price, ma60, threshold) ==
  ~ma60.nan /\ RatioLeq(Abs(price - ma60.v), ma60.v, threshold)

(* if is_near_ma60 and is_uptrend *)
triggered(h, threshold) ==
  is_near_ma60(h.price, h.ma60, threshold) /\ is_uptrend(h.price, h.ma200)

(* ---------------- agent.py: analyze_market ---------------- *)
(* macro = check_macro_environment(), once, before the loop *)
analyze_market_macro ==
  /\ prog = "agent" /\ pc = "macro"
  /\ \E vf \in VixFetches, tf \in TnxFetches :
       /\ macro' = check_macro_environment(vf, tf)
       /\ log' = Append(log, Event("macro", "",
                                   IF vf.ok /\ tf.ok THEN "fetched" ELSE "fetch failed"))
  /\ macroCalls' = macroCalls + 1
  /\ pc' = IF NumTickers >= 1 THEN "fetch" ELSE "done"
  /\ UNCHANGED <<prog, idx, hist, extras, mail>>
  /\ UNCHANGED <<data, result, option_call, option_data>>

(* the indicator columns and the latest-bar values, agent.py *)
Indicators(n, s, r, vol) ==
  [n |-> n, price |-> s.price,
   ma60 |-> rolling_mean_last(n, TARGET_MA, s.m60),
   ma200 |-> rolling_mean_last(n, TREND_MA, s.m200),
   rsi |-> calculate_rsi(n, r.gain, r.loss),
   hist_vol |-> calculate_historical_volatility(n, vol)]

(* top of the loop body: fetch the history, guard its length, compute the *)
(* indicators; any exception goes to the handler of the loop body         *)
analyze_market_fetch ==
  /\ prog = "agent" /\ pc = "fetch"
  /\ LET started == Append(log, Event("analyzing", Ticker, "")) IN
     \/ \* stock.history raises
        /\ log' = Append(started, Event("error", Ticker, "history"))
        /\ Advance
     \/ \* if len(hist) < 200: continue
        /\ \E n \in HistLens : n < MIN_HISTORY
        /\ log' = Append(started, Event("skipped", Ticker, ""))
        /\ Advance
     \/ \* an indicator computation raises on malformed data
        /\ \E n \in HistLens : ~(n < MIN_HISTORY)
        /\ log' = Append(started, Event("error", Ticker, "indicators"))
        /\ Advance
     \/ \E n \in HistLens, s \in Snapshots, r \in RsiInputs, vol \in VolInputs :
          /\ ~(n < MIN_HISTORY)
          /\ hist' = Indicators(n, s, r, vol)
          /\ log' = started
          /\ pc' = "detect"
          /\ UNCHANGED <<idx, extras, mail>>
  /\ UNCHANGED <<prog, macro, macroCalls>>
  /\ UNCHANGED <<data, result, option_call, option_data>>

(* the strategy logic and its two branches *)
analyze_market_detect ==
  /\ prog = "agent" /\ pc = "detect"
  /\ IF triggered(hist, THRESHOLD)
     THEN /\ log' = Append(log, Event("signal", Ticker, ""))
          /\ pc' = "extras"
          /\ UNCHANGED <<idx, hist, extras, mail>>
     ELSE /\ log' = Append(log, Event("no signal", Ticker, ""))
          /\ Advance
  /\ UNCHANGED <<prog, macro, macroCalls>>
  /\ UNCHANGED <<data, result, option_call, option_data>>

(* opt_text *)
opt_text(od) ==
  IF IsNone(od) THEN [text |-> "No options available."]
  ELSE [text |-> "Call Exp", expiration |-> od.expiration, strike |-> od.strike,
        lastPrice |-> od.lastPrice, impliedVolatility |-> od.impliedVolatility]

(* "Get Extras" and the option idea *)
analyze_market_extras ==
  /\ prog = "agent" /\ pc = "extras"
  /\ \/ \* generate_chart raises
        /\ log' = Append(log, Event("error", Ticker, "chart"))
        /\ Advance
     \/ \E series \in ScanSeries, news \in NewsInputs, st \in ScanStocks,
           late \in BOOLEAN :
          LET od == get_option_idea(st, hist.price, late) IN
          /\ extras' = [set |-> TRUE,
                        backtest_result |-> run_backtest(series),
                        news_html |-> get_stock_news(news),
                        option_data |-> od,
                        opt_text |-> opt_text(od)]
          /\ log' = Append(log, Event("option", Ticker,
                                      IF IsNone(od) THEN "absent" ELSE "found"))
          /\ pc' = "advise"
          /\ UNCHANGED <<idx, hist, mail>>
  /\ UNCHANGED <<prog, macro, macroCalls>>
  /\ UNCHANGED <<data, result, option_call, option_data>>

(* the prompt: the evidence handed to the advisory collaborator *)
prompt ==
  [ticker |-> Ticker, macro |-> macro, price |-> hist.price, rsi |-> hist.rsi,
   hist_vol |-> hist.hist_vol, opt_text |-> extras.opt_text,
   backtest_result |-> extras.backtest_result, news_html |-> extras.news_html]

(* final_body, once every field it formats could be read *)
final_body ==
  [ticker |-> Ticker, macro |-> macro, price |-> hist.price,
   ma60 |-> hist.ma60, ma200 |-> hist.ma200,
   iv |-> extras.option_data.impliedVolatility, hv |-> hist.hist_vol,
   backtest_result |-> extras.backtest_result, body |-> "advisory body",
   opt_text |-> extras.opt_text, news_html |-> extras.news_html]

(* the inner try: advisory call, json.loads, final_body, the arguments of *)
(* send_email; every exception ends in "AI/Email Error"                   *)
analyze_market_advise ==
  /\ prog = "agent" /\ pc = "advise"
  /\ \E r \in Responses :
       LET asked == Append(log, Event("advise", Ticker, RespKind(r))) IN
       IF \/ ~r.ok                          \* generate_content raises
          \/ ~r.json                        \* json.loads raises
          \/ IsNone(extras.option_data)     \* option_data['impliedVolatility']
          \/ ~r.body                        \* data['body']
          \/ ~r.subject                     \* data['subject']
       THEN /\ log' = Append(asked, Event("ai/email error", Ticker, ""))
            /\ Advance
       ELSE /\ mail' = [set |-> TRUE, subject |-> <<"advisory subject">>,
                        body |-> final_body]
            /\ log' = asked
            /\ pc' = "send"
            /\ UNCHANGED <<idx, hist, extras>>
  /\ UNCHANGED <<prog, macro, macroCalls>>
  /\ UNCHANGED <<data, result, option_call, option_data>>

(* send_email of agent.py: the message reaches the sink; a delivery *)
(* failure is caught and printed inside send_email                  *)
send_email ==
  /\ prog = "agent" /\ pc = "send"
  /\ \E delivered \in BOOLEAN :
       log' = log \o <<Event("send", Ticker, mail.subject[1]),
                        Event(IF delivered THEN "email sent" ELSE "email failed",
                              Ticker, "")>>
  /\ pc' = "sleep"
  /\ UNCHANGED <<prog, idx, macro, macroCalls, hist, extras, mail>>
  /\ UNCHANGED <<data, result, option_call, option_data>>

(* variant: no pause after the hand-off *)
analyze_market_sleep_skipped ==
  /\ prog = "agent" /\ pc = "sleep"
  /\ log' = log
  /\ Advance
  /\ UNCHANGED <<prog, macro, macroCalls>>
  /\ UNCHANGED <<data, result, option_call, option_data>>

(* time.sleep(4) after send_email, then the next ticker *)
analyze_market_sleep ==
  /\ prog = "agent" /\ pc = "sleep"
  /\ log' = Append(log, Event("sleep", Ticker, ""))
  /\ Advance
  /\ UNCHANGED <<prog, macro, macroCalls>>
  /\ UNCHANGED <<data, result, option_call, option_data>>

(* ---------------- backup.py: analyze_market ---------------- *)
(* backup.py computes the two moving averages only *)
backup_Indicators(n, s) ==
  [n |-> n, price |-> s.price,
   ma60 |-> rolling_mean_last(n, TARGET_MA, s.m60),
   ma200 |-> rolling_mean_last(n, TREND_MA, s.m200)]

(* fetch, length guard, latest data points *)
backup_analyze_market_fetch ==
  /\ prog = "backup" /\ pc = "fetch"
  /\ LET started == Append(log, Event("analyzing", Ticker, "")) IN
     \/ \* stock.history raises
        /\ log' = Append(started, Event("error", Ticker, "history"))
        /\ Advance
     \/ \* if len(hist) < 200: print "Skipping"; continue
        /\ \E n \in HistLens : n < MIN_HISTORY
        /\ log' = Append(started, Event("skipped", Ticker, ""))
        /\ Advance
     \/ \* the latest data points cannot be read
        /\ \E n \in HistLens : ~(n < MIN_HISTORY)
        /\ log' = Append(started, Event("error", Ticker, "indicators"))
        /\ Advance
     \/ \E n \in HistLens, s \in Snapshots :
          /\ ~(n < MIN_HISTORY)
          /\ hist' = backup_Indicators(n, s)
          /\ log' = started
          /\ pc' = "detect"
          /\ UNCHANGED <<idx, extras, mail>>
  /\ UNCHANGED <<prog, macro, macroCalls>>
  /\ UNCHANGED <<data, result, option_call, option_data>>

(* strategy checks and decision logic *)
backup_analyze_market_detect ==
  /\ prog = "backup" /\ pc = "detect"
  /\ IF triggered(hist, BACKUP_THRESHOLD)
     THEN /\ log' = Append(log, Event("signal", Ticker, ""))
          /\ pc' = "advise"
          /\ UNCHANGED <<idx, hist, extras, mail>>
     ELSE /\ log' = Append(log, Event("no signal", Ticker, ""))
          /\ Advance
  /\ UNCHANGED <<prog, macro, macroCalls>>
  /\ UNCHANGED <<data, result, option_call, option_data>>

(* the except json.JSONDecodeError branch: the fallback message *)
backup_fallback_mail ==
  [set |-> TRUE, subject |-> <<"Buy Signal: ", Ticker>>,
   body |-> <<"Price $", hist.price, " is at MA60 support in an uptrend.">>]

(* news, advisory call, json.loads and the choice of the message *)
backup_analyze_market_advise ==
  /\ prog = "backup" /\ pc = "advise"
  /\ \E news \in NewsInputs, r \in Responses :
       LET news_summary == get_stock_news(news)
           asked == Append(log, Event("advise", Ticker, RespKind(r)))
       IN
       IF ~r.ok                     \* generate_content raises
       THEN /\ log' = Append(asked, Event("error", Ticker, "advisory"))
            /\ Advance
       ELSE IF ~r.json              \* except json.JSONDecodeError
       THEN /\ mail' = backup_fallback_mail
            /\ log' = asked
            /\ pc' = "send"
            /\ UNCHANGED <<idx, hist, extras>>
       ELSE IF ~r.body \/ ~r.subject    \* KeyError leaves the inner try
       THEN /\ log' = Append(asked, Event("error", Ticker, "key"))
            /\ Advance
       ELSE /\ mail' = [set |-> TRUE, subject |-> <<"advisory subject">>,
                        body |-> <<"advisory body", news_summary>>]
            /\ log' = asked
            /\ pc' = "send"
            /\ UNCHANGED <<idx, hist, extras>>
  /\ UNCHANGED <<prog, macro, macroCalls>>
  /\ UNCHANGED <<data, result, option_call, option_data>>

(* send_email of backup.py *)
backup_send_email ==
  /\ prog = "backup" /\ pc = "send"
  /\ \E delivered \in BOOLEAN :
       log' = log \o <<Event("send", Ticker, mail.subject[1]),
                        Event(IF delivered THEN "email sent" ELSE "email failed",
                              Ticker, "")>>
  /\ pc' = "sleep"
  /\ UNCHANGED <<prog, idx, macro, macroCalls, hist, extras, mail>>
  /\ UNCHANGED <<data, result, option_call, option_data>>

(* time.sleep(4) # Respect rate limits *)
backup_analyze_market_sleep ==
  /\ prog = "backup" /\ pc = "sleep"
  /\ log' = Append(log, Event("sleep", Ticker, ""))
  /\ Advance
  /\ UNCHANGED <<prog, macro, macroCalls>>
  /\ UNCHANGED <<data, result, option_call, option_data>>

(* ---------------- the scan as a whole ---------------- *)
Init ==
  /\ ScanInit
  /\ data = <<>>
  /\ result = NoResult
  /\ option_call = NoCall
  /\ option_data = None

Next ==
  \/ analyze_market_macro
  \/ analyze_market_fetch
  \/ analyze_market_detect
  \/ analyze_market_extras
  \/ analyze_market_advise
  \/ send_email
  \/ analyze_market_sleep
  \/ backup_analyze_market_fetch
  \/ backup_analyze_market_detect
  \/ backup_analyze_market_advise
  \/ backup_send_email
  \/ backup_analyze_market_sleep

Spec == Init /\ [][Next]_vars

(* the scan is not running *)
ScanIdle ==
  /\ prog = "agent"
  /\ pc = "idle"
  /\ idx = 1
  /\ macro = NoMacro
  /\ macroCalls = 0
  /\ hist = NoHist
  /\ extras = NoExtras
  /\ mail = NoMail
  /\ log = <<>>

(* ======================= the backtest engine alone ======================= *)
(* every annotated series of at most MaxBars bars *)
AllSeries == UNION {[1..n -> BarKinds] : n \in 0..MaxBars}

InitBacktest ==
  /\ ScanIdle
  /\ data \in AllSeries
  /\ result = NoResult
  /\ option_call = NoCall
  /\ option_data = None

(* backtest_result = run_backtest(hist) *)
run_backtest_call ==
  /\ pc = "idle" /\ result = NoResult /\ option_call = NoCall
  /\ result' = run_backtest(data)
  /\ UNCHANGED <<data, option_call, option_data>>
  /\ UNCHANGED scanVars

NextBacktest == run_backtest_call

SpecBacktest == InitBacktest /\ [][NextBacktest]_vars

(* ======================= the option selector alone ======================= *)
(* calendar distances (days) of the listed expirations from today *)
ExpDays == {7, 30, 31, 45, 60, 61, 90}

(* expiration lists: up to MaxExp different dates, in any order *)
ExpLists ==
  UNION {{e \in [1..n -> ExpDays] : \A i, j \in 1..n : i # j => e[i] # e[j]}
         : n \in 0..MaxExp}

CallChains ==
  { <<>>,
    <<Row(98), Row(101), Row(103), Row(110)>>,
    <<Row(103), Row(101)>> }

OptionCalls ==
  { [set |-> TRUE,
     stock |-> [optionsOk |-> ook, expirations |-> e, chainOk |-> cok, calls |-> c],
     current_price |-> 100, late |-> l]
    : ook \in BOOLEAN, e \in ExpLists, cok \in BOOLEAN, c \in CallChains,
      l \in BOOLEAN }

InitOption ==
  /\ ScanIdle
  /\ data = <<>>
  /\ result = NoResult
  /\ option_call \in OptionCalls
  /\ option_data = None

(* option_data = get_option_idea(stock, price) *)
get_option_idea_call ==
  /\ pc = "idle" /\ option_call # NoCall
  /\ option_data' = get_option_idea(option_call.stock, option_call.current_price,
                                    option_call.late)
  /\ pc' = "returned"
  /\ UNCHANGED <<prog, idx, macro, macroCalls, hist, extras, mail, log>>
  /\ UNCHANGED <<data, result, option_call>>

NextOption == get_option_idea_call

SpecOption == InitOption /\ [][NextOption]_vars

(* fairness of the single thread: the interpreter keeps executing *)
FairSpec == Spec /\ WF_vars(Next)

(* ======================= properties ======================= *)
(* the events of one kind about one ticker *)
Events(e, t) == SelectSeq(log, LAMBDA ev : ev.e = e /\ ev.t = t)

Count(e, t) == Len(Events(e, t))

(* the iterations started so far, in order *)
Analyzed == SelectSeq(log, LAMBDA ev : ev.e = "analyzing")

(* number of loop iterations that have begun *)
Begun ==
  IF pc = "macro" THEN 0
  ELSE IF pc = "fetch" THEN idx - 1
  ELSE IF pc = "done" THEN NumTickers
  ELSE idx

(* watchlist positions whose iteration is over *)
FinishedPositions == 1..(IF pc = "macro" THEN 0 ELSE idx - 1)

VisitedInOrder ==
  /\ Len(Analyzed) = Begun
  /\ \A k \in 1..Len(Analyzed) : Analyzed[k].t = Watchlist(prog)[k]
  /\ pc = "done" => idx = NumTickers + 1

(* C1: whatever happens to each asset (history fetch raises, history too *)
(* short, a sub-component raises, the advisory call fails, mail delivery *)
(* fails), every asset of the watchlist is visited exactly once, in      *)
(* watchlist order, and the scan terminates                              *)
C1_FullPass == [](VisitedInOrder) /\ <>(pc = "done")

(* a run in which the first asset failed and the second was still visited *)
C1_Witness ==
  /\ pc = "done"
  /\ NumTickers >= 2
  /\ Count("error", Watchlist(prog)[1]) = 1
  /\ Count("analyzing", Watchlist(prog)[2]) = 1

Unparseable == {"not json", "no subject", "no body"}

(* C2: a triggered asset whose advisory response cannot be parsed into   *)
(* {subject, body} still gets exactly one message handed to the sink,    *)
(* and that message is the deterministic fallback                        *)
C2_FallbackSent ==
  \A k \in FinishedPositions :
    LET t == Watchlist(prog)[k] IN
    (Count("signal", t) = 1
     /\ \E i \in 1..Len(log) :
          log[i].e = "advise" /\ log[i].t = t /\ log[i].d \in Unparseable)
    => /\ Count("send", t) = 1
       /\ Events("send", t)[1].d = "Buy Signal: "

(* the proximity threshold of the running scanner, in thousandths *)
Threshold == IF prog = "agent" THEN THRESHOLD ELSE BACKUP_THRESHOLD

(* the detector has just reported a signal *)
Fired == log # <<>> /\ log[Len(log)].e = "signal"

(* C3: with price, shortMA > 0 and longMA defined, the detector triggers *)
(* iff price > longMA (strict) and |price - shortMA| / shortMA <=        *)
(* threshold (inclusive); price 100, shortMA 98, longMA 90 triggers at   *)
(* threshold 0.025 and the same asset with longMA 110 does not           *)
C3_Detector ==
  [][pc = "detect" =>
       /\ (~hist.ma60.nan /\ ~hist.ma200.nan /\ hist.ma60.v > 0) =>
            (Fired' <=> /\ hist.price > hist.ma200.v
                        /\ Abs(hist.price - hist.ma60.v) * 1000
                             <= Threshold * hist.ma60.v)
       /\ (Threshold = 25 /\ hist.price = 100 /\ hist.ma60 = Num(98)) =>
            /\ hist.ma200 = Num(90) => Fired'
            /\ hist.ma200 = Num(110) => ~Fired']_vars

(* the detector triggered exactly at the threshold: |41 - 40| / 40 = 0.025 *)
C3_Witness ==
  /\ prog = "agent" /\ Fired
  /\ hist.price = 41 /\ hist.ma60 = Num(40) /\ hist.ma200 = Num(30)

(* the bars every computed indicator needs: 60, 200, 14 and 252 + 1 *)
BarsNeeded == HV_WINDOW + 1

(* C4: evidence reaches the advisory collaborator only for an asset whose *)
(* history is long enough for every computed indicator and whose MA, RSI  *)
(* and historical volatility are all defined                              *)
C4_NoUndefinedEvidence ==
  (prog = "agent" /\ pc = "advise") =>
    /\ prompt.ticker = Ticker
    /\ hist.n >= BarsNeeded
    /\ ~hist.ma60.nan /\ ~hist.ma200.nan
    /\ ~prompt.rsi.nan /\ ~prompt.hist_vol.nan

(* trigger bars that have a bar HOLDING_PERIOD sessions later: python *)
(* index k - 1 < len - 10                                             *)
TradableBars ==
  {k \in 1..Len(data) : Signal(data[k]) /\ k - 1 < Len(data) - HOLDING_PERIOD}

(* C5: every recorded trade enters at a bar that satisfies the historical *)
(* trigger and exits exactly 10 bars later at a bar of the series; the    *)
(* trigger bars among the final 10 bars give no trade, so the trade count *)
(* is the number of trigger bars with index < length - 10                 *)
C5_NoLookAhead ==
  result # NoResult =>
    LET ts == trades(data) IN
    /\ \A i \in 1..Len(ts) :
         /\ ts[i].entry \in 1..Len(data)
         /\ Signal(data[ts[i].entry])
         /\ ts[i].exit = ts[i].entry + 10
         /\ ts[i].exit \in 1..Len(data)
         /\ ts[i].buy = data[ts[i].entry].Close
         /\ ts[i].sell = data[ts[i].exit].Close
    /\ \A i, j \in 1..Len(ts) : i < j => ts[i].entry < ts[j].entry
    /\ Len(ts) = Cardinality(TradableBars)
    /\ result.text = "Win Rate" => result.trades = Cardinality(TradableBars)

(* a backtest that recorded a trade and discarded a later trigger bar *)
C5_Witness ==
  /\ result # NoResult
  /\ result.text = "Win Rate"
  /\ \E k \in signals(data) : k - 1 >= Len(data) - HOLDING_PERIOD

(* C6: with zero recorded trades the result is a sentinel text and no win *)
(* rate is reported; a numeric win rate (0% included) and an average      *)
(* return are reported only when at least one trade was recorded          *)
C6_NoTradesSentinel ==
  result # NoResult =>
    /\ TradableBars = {} =>
         /\ result.text \in {"No similar setups.", "Insufficient data."}
         /\ DOMAIN result = {"text"}
    /\ TradableBars # {} =>
         /\ result.text = "Win Rate"
         /\ result.trades >= 1
         /\ result.win_rate \in 0..1000
    /\ (result.text = "No similar setups.") <=> (signals(data) = {})

(* every trigger bar lies within the last 10 bars: no trade, no win rate *)
C6_Witness ==
  /\ result # NoResult
  /\ signals(data) # {}
  /\ result.text = "Insufficient data."

(* C7: a triggered asset whose message was handed to send_email is         *)
(* followed by exactly one sleep before the next asset is fetched; an      *)
(* asset that did not trigger, or was skipped, is followed by none         *)
C7_Pacing ==
  /\ \A k \in FinishedPositions :
       LET t == Watchlist(prog)[k] IN
       /\ Count("sleep", t) = Count("send", t)
       /\ Count("send", t) <= 1
       /\ Count("signal", t) = 0 => Count("sleep", t) = 0
  /\ \A p \in 2..Len(log) :
       /\ log[p].e = "analyzing" =>
            (log[p - 1].e = "sleep" <=> \E q \in 1..(p - 1) :
                log[q].e = "send" /\ log[q].t = log[p - 1].t)
       /\ log[p].e = "sleep" =>
            /\ p >= 3
            /\ log[p - 2].e = "send" /\ log[p - 2].t = log[p].t

(* the first asset was handed to the sink, slept once, then the second *)
(* asset was fetched                                                   *)
C7_Witness ==
  /\ NumTickers >= 2
  /\ Count("send", Watchlist(prog)[1]) = 1
  /\ Count("sleep", Watchlist(prog)[1]) = 1
  /\ Count("analyzing", Watchlist(prog)[2]) = 1

(* the expirations of a list and those inside the 30..60 day window *)
Listed == {option_call.stock.expirations[i] :
             i \in 1..Len(option_call.stock.expirations)}

InWindow ==
  {d \in Listed : /\ 30 <= days_out(d, option_call.late)
                  /\ days_out(d, option_call.late) <= 60}

Nearest(S) == CHOOSE d \in S : \A o \in S : d <= o

(* C8: for every non-empty list of expirations, the chosen one is the *)
(* nearest of those 30 to 60 days out, or, when there is none, the    *)
(* nearest of all                                                     *)
C8_NearestExpiration ==
  (pc = "returned" /\ ~IsNone(option_data)) =>
    option_data.expiration =
      IF InWindow # {} THEN Nearest(InWindow) ELSE Nearest(Listed)

MacroFailed ==
  \E i \in 1..Len(log) : log[i].e = "macro" /\ log[i].d = "fetch failed"

(* C9: when a macro fetch fails, check_macro_environment returns the     *)
(* ERROR label with vix and yield 0; it is called once, before the loop, *)
(* and the scan then visits every asset with that same macro context     *)
C9_MacroNeverFatal ==
  /\ macroCalls <= 1
  /\ (prog = "agent" /\ pc # "macro") =>
       /\ macroCalls = 1
       /\ log[1].e = "macro"
       /\ \A i \in 2..Len(log) : log[i].e # "macro"
  /\ MacroFailed =>
       /\ macro = [vix |-> 0, tnx |-> 0, status |-> "Error Fetching Macro"]
       /\ pc = "advise" => prompt.macro = macro
       /\ pc = "send" => mail.body.macro = macro
       /\ pc = "done" =>
            /\ Len(Analyzed) = NumTickers
            /\ \A k \in 1..NumTickers : Analyzed[k].t = Watchlist(prog)[k]

(* a finished scan whose macro fetch failed and which still sent a signal *)
C9_Witness ==
  /\ pc = "done"
  /\ MacroFailed
  /\ \E i \in 1..Len(log) : log[i].e = "send"

(* C10: a triggered asset for which get_option_idea returned None and  *)
(* whose advisory response parsed still has its notification handed to *)
(* the sink                                                            *)
C10_OptionlessNotified ==
  \A k \in FinishedPositions :
    LET t == Watchlist(prog)[k] IN
    (/\ \E i \in 1..Len(log) :
          log[i].e = "option" /\ log[i].t = t /\ log[i].d = "absent"
     /\ \E i \in 1..Len(log) :
          log[i].e = "advise" /\ log[i].t = t /\ log[i].d = "parsed")
    => Count("send", t) = 1

(* the live detector of agent.py evaluated at a historical bar *)
LiveRule(b) ==
  triggered([price |-> b.Close, ma60 |-> b.MA60, ma200 |-> b.MA200], THRESHOLD)

(* bars the claim speaks about: both averages defined and low <= close *)
WellFormedBar(b) == ~b.MA60.nan /\ ~b.MA200.nan /\ b.Low <= b.Close

(* run_backtest has counted the bar at position k as a trigger occurrence *)
CountedAsTrigger(k) ==
  /\ k \in signals(data)
  /\ result.text # "No similar setups."

====
